---- MODULE Spec2Model ----
(***************************************************************************)
(* A model of the kit database browser backend (src-tauri/src):            *)
(*   db_manager.rs  DbManager (the dispatcher) and connect_to_db           *)
(*   native.rs      NativeDbManager, the embedded (rusqlite) backend       *)
(*   libsql.rs      LibsqlDbManager, the remote (libsql_client) backend    *)
(*   main.rs        AppState and the tauri commands that lock it           *)
(*                                                                         *)
(* Strings the code inspects character by character (connection strings,  *)
(* table names) are sequences of one-character strings.                    *)
(***************************************************************************)
EXTENDS Integers, Sequences, FiniteSets, TLC

VARIABLES
    rin,        \* resolver specification: the raw connection string
    rout,       \* resolver specification: what connect_to_db made of it
    ftab,       \* fetch specification: the tables of the embedded database
    fname,      \* fetch specification: the table name asked for
    fout,       \* fetch specification: what get_table_data returned
    db,         \* AppState.db: the DbManager's active backend (DbManager.db)
    lock,       \* AppState.db's mutex: the thread holding it, 0 when free
    poisoned,   \* AppState.db's mutex: a holder panicked
    files,      \* the file system: what is at each path
    remote,     \* the tables of the remote service
    nextId,     \* the number of backends constructed so far
    ncalls,     \* the number of commands invoked so far
    pc,         \* per thread: where its command stands
    cmd,        \* per thread: the command and its arguments
    loc,        \* per thread: the command's local variables
    res,        \* per thread: the command's result, once it has one
    pre,        \* per thread: the backend that was active when it took the lock
    used,       \* per thread: the backends its command has called so far
    rkind,      \* row specification: the backend, "native" or "libsql"
    rtab,       \* row specification: the tables of the backend's database
    rlog,       \* row specification: the operations run so far
    callbacks,  \* the keys of the callback registry of AppState
    cblock,     \* the thread that holds the registry's mutex, 0 when it is free
    cbpoisoned, \* whether the registry's mutex is poisoned
    ppc         \* where the polling task stands

resolveVars == <<rin, rout>>
fetchVars == <<ftab, fname, fout>>
worldVars == <<files, remote>>
mainVars == <<db, lock, poisoned, files, remote, nextId, ncalls, pc, cmd, loc, res, pre, used>>
rowVars == <<rkind, rtab, rlog>>
pollVars == <<callbacks, cblock, cbpoisoned, ppc>>
vars == <<rin, rout, ftab, fname, fout,
          db, lock, poisoned, files, remote, nextId, ncalls, pc, cmd, loc, res, pre, used,
          rkind, rtab, rlog,
          callbacks, cblock, cbpoisoned, ppc>>

(***************************************************************************)
(* Bounds                                                                  *)
(***************************************************************************)
\* longest connection-string body the resolver specification enumerates
MaxLen == 4
\* most rows of a table of the fetch specification (above the LIMIT of 100)
MaxRows == 102
\* threads that run commands
NumThreads == 2
\* commands invoked in one behaviour
MaxCalls == 4
\* most rows insert_row grows a table to
MaxStored == 2
\* operations run in one behaviour of the row specification
MaxOps == 2
\* the commands invoked in a behaviour of the polling specification
MaxPollCalls == 2

(***************************************************************************)
(* Strings                                                                 *)
(***************************************************************************)
\* Option<T>: a sequence holding no value or one
NoneOpt == <<>>
Some(x) == <<x>>

\* the outcome of an unwrap() that failed
Panic == [type |-> "Panic"]
\* nothing yet
Unset == [type |-> "Unset"]

\* the variables of a specification that is not the one running
ResolveIdle == rin = <<>> /\ rout = Unset
FetchIdle == ftab = <<>> /\ fname = <<>> /\ fout = Unset
RowsIdle == rkind = "none" /\ rtab = <<>> /\ rlog = <<>>
PollIdle == callbacks = {} /\ cblock = 0 /\ cbpoisoned = FALSE /\ ppc = "off"

\* the characters connection-string bodies are drawn from
Alphabet == {"/", ":", "a"}

\* "libsql://"
Scheme == <<"l", "i", "b", "s", "q", "l", ":", "/", "/">>

\* "::"
Sep == <<":", ":">>

\* str::starts_with
StartsWith(s, p) ==
    /\ Len(s) >= Len(p)
    /\ SubSeq(s, 1, Len(p)) = p

\* index of the first "::" of s at or after i, 0 when there is none
RECURSIVE FindSep(_, _)
FindSep(s, i) ==
    IF i + 1 > Len(s) THEN 0
    ELSE IF s[i] = ":" /\ s[i + 1] = ":" THEN i
    ELSE FindSep(s, i + 1)

\* path.split("::").next(): the text before the first "::", all of s without one
SplitFirst(s) ==
    LET k == FindSep(s, 1)
    IN  IF k = 0 THEN s ELSE SubSeq(s, 1, k - 1)

\* path.split("::").nth(1): the text between the first "::" and the next one
\* (or the end); None when s has no "::"
SplitSecond(s) ==
    LET k == FindSep(s, 1)
    IN  IF k = 0 THEN NoneOpt
        ELSE LET rest == SubSeq(s, k + 2, Len(s))
             IN  Some(SplitFirst(rest))

\* std::env::current_dir(), as displayed
Cwd == <<"/", "w">>

(***************************************************************************)
(* Connection-string resolution (the head of DbManager::connect_to_db).    *)
(* The result is a ConnectionType, or Panic when an unwrap() fails.        *)
(***************************************************************************)
Sqlite(p) == [type |-> "Sqlite", path |-> p]
Libsql(h, t) == [type |-> "Libsql", host |-> h, token |-> t]

\* a resolver that drops the scheme from the url
ConnectionTypeOfNoScheme(path) ==
    IF StartsWith(path, Scheme)
    THEN IF SplitSecond(path) = NoneOpt
         THEN Panic
         ELSE Libsql(SubSeq(SplitFirst(path), Len(Scheme) + 1, Len(SplitFirst(path))),
                     SplitSecond(path)[1])
    ELSE IF StartsWith(path, <<"/">>)
         THEN Sqlite(path)
         ELSE Sqlite(Cwd \o <<"/", ".", ".", "/">> \o path)

ConnectionTypeOf(path) ==
    IF StartsWith(path, Scheme)
    THEN IF SplitSecond(path) = NoneOpt
         THEN Panic
         ELSE Libsql(SplitFirst(path), SplitSecond(path)[1])
    ELSE IF StartsWith(path, <<"/">>)
         THEN Sqlite(path)
         ELSE Sqlite(Cwd \o <<"/", ".", ".", "/">> \o path)

(***************************************************************************)
(* The value model (main.rs).  A value held by the SQL engine is            *)
(* [ty, v] (rusqlite::types::Value); a value handed to the caller is        *)
(* [tag, v] (SerializableValue).  Column names, type names and messages     *)
(* are only ever compared, and are TLA+ strings.                           *)
(***************************************************************************)
SqlNull == [ty |-> "null", v |-> 0]
SqlInteger(i) == [ty |-> "integer", v |-> i]
SqlText(s) == [ty |-> "text", v |-> s]

\* impl From<Value> for SerializableValue
FromValue(value) ==
    CASE value.ty = "null" -> [tag |-> "Null", v |-> 0]
      [] value.ty = "integer" -> [tag |-> "Integer", v |-> value.v]
      [] value.ty = "real" -> [tag |-> "Real", v |-> value.v]
      [] value.ty = "text" -> [tag |-> "Text", v |-> value.v]
      [] value.ty = "blob" -> [tag |-> "Blob", v |-> value.v]

\* the type_name match of get_table_data and run_query
TypeName(value) ==
    CASE value.tag = "Null" -> "NULL"
      [] value.tag = "Integer" -> "INTEGER"
      [] value.tag = "Real" -> "REAL"
      [] value.tag = "Text" -> "TEXT"
      [] value.tag = "Blob" -> "BLOB"

ColumnInfo(n, t) == [name |-> n, type_name |-> t]

TableRequest(c, r, n) == [column_names |-> c, rows |-> r, row_count |-> n]

\* Result<T, String>
Ok(x) == [type |-> "Ok", val |-> x]
Err(e) == [type |-> "Err", msg |-> e]

Min(a, b) == IF a < b THEN a ELSE b

(***************************************************************************)
(* The SQL engine, as far as the backends use it.  A database is the       *)
(* sequence of its tables in catalog order; a table is [name, cols, rows]. *)
(***************************************************************************)
\* index of the table called name, 0 when the database has none
RECURSIVE TableIndex(_, _, _)
TableIndex(tables, name, i) ==
    IF i > Len(tables) THEN 0
    ELSE IF tables[i].name = name THEN i
    ELSE TableIndex(tables, name, i + 1)

HasTable(tables, name) == TableIndex(tables, name, 1) # 0
TableOf(tables, name) == tables[TableIndex(tables, name, 1)]

\* index of column c in cols, 0 when it is not one
RECURSIVE ColumnIndex(_, _, _)
ColumnIndex(cols, c, i) ==
    IF i > Len(cols) THEN 0
    ELSE IF cols[i] = c THEN i
    ELSE ColumnIndex(cols, c, i + 1)

\* the table called name with its rows replaced
WithRows(tables, name, rows) ==
    [i \in 1..Len(tables) |->
        IF i = TableIndex(tables, name, 1)
        THEN [tables[i] EXCEPT !.rows = rows]
        ELSE tables[i]]

\* WHERE <col> = <id> on a stored value
Matches(value, id) == value.ty \in {"integer", "real"} /\ value.v = id

\* a DELETE that stops at the first row it removes
RECURSIVE RowsWithoutFirstMatch(_, _, _)
RowsWithoutFirstMatch(rows, c, id) ==
    IF rows = <<>> THEN <<>>
    ELSE IF Matches(Head(rows)[c], id)
         THEN Tail(rows)
         ELSE <<Head(rows)>> \o RowsWithoutFirstMatch(Tail(rows), c, id)

\* the rows whose column c does not match id, in order
RECURSIVE RowsNotMatching(_, _, _)
RowsNotMatching(rows, c, id) ==
    IF rows = <<>> THEN <<>>
    ELSE IF Matches(Head(rows)[c], id)
         THEN RowsNotMatching(Tail(rows), c, id)
         ELSE <<Head(rows)>> \o RowsNotMatching(Tail(rows), c, id)

\* "DELETE FROM <table> WHERE <col> = <id>": the database afterwards
SqlDelete(tables, name, col, id) ==
    IF ~HasTable(tables, name) THEN Err("no such table")
    ELSE LET t == TableOf(tables, name)
             c == ColumnIndex(t.cols, col, 1)
         IN  IF c = 0 THEN Err("no such column")
             ELSE Ok(WithRows(tables, name, RowsNotMatching(t.rows, c, id)))

\* "INSERT INTO <table> VALUES (...)": the database afterwards
SqlInsert(tables, name, row) ==
    IF ~HasTable(tables, name) THEN Err("no such table")
    ELSE LET t == TableOf(tables, name)
         IN  IF Len(row) # Len(t.cols) THEN Err("wrong number of values")
             ELSE Ok(WithRows(tables, name, Append(t.rows, row)))

\* "UPDATE <table> SET <col> = <value> WHERE <key> = <id>": the database
\* afterwards
SqlUpdate(tables, name, col, key, id, value) ==
    IF ~HasTable(tables, name) THEN Err("no such table")
    ELSE LET t == TableOf(tables, name)
             c == ColumnIndex(t.cols, col, 1)
             k == ColumnIndex(t.cols, key, 1)
         IN  IF c = 0 \/ k = 0 THEN Err("no such column")
             ELSE Ok(WithRows(tables, name,
                        [i \in 1..Len(t.rows) |->
                            IF Matches(t.rows[i][k], id)
                            THEN [t.rows[i] EXCEPT ![c] = value]
                            ELSE t.rows[i]]))

(***************************************************************************)
(* The embedded backend (native.rs)                                        *)
(***************************************************************************)
\* the LIMIT of get_table_data's SELECT
RowLimit == 100

\* get_table_data, lines 47-66: prepare "SELECT * FROM '<table>' LIMIT 100" and
\* collect the rows, each value through SerializableValue::from
NativeSelectLimited(tables, name) ==
    IF ~HasTable(tables, name)
    THEN Err("no such table")
    ELSE LET t == TableOf(tables, name)
             n == Min(Len(t.rows), RowLimit)
         IN  Ok([names |-> t.cols,
                 rows |-> [i \in 1..n |->
                             [k \in 1..Len(t.cols) |-> FromValue(t.rows[i][k])]]])

\* get_table_data, lines 87-94: "SELECT COUNT(*) FROM '<table>'"
NativeCount(tables, name) ==
    IF ~HasTable(tables, name)
    THEN Err("no such table")
    ELSE Ok(Len(TableOf(tables, name).rows))

\* column types taken from the table's schema: id and value INTEGER, name TEXT
NativeColumnsDeclared(names, first_item) ==
    [k \in 1..Min(Len(names), Len(first_item)) |->
        ColumnInfo(names[k], IF names[k] = "name" THEN "TEXT" ELSE "INTEGER")]

\* get_table_data, lines 71-85: the statement's column names zipped with the
\* first row
NativeColumns(names, first_item) ==
    [k \in 1..Min(Len(names), Len(first_item)) |->
        ColumnInfo(names[k], TypeName(first_item[k]))]

\* the id-promotion of libsql.rs lines 104-120: the first column called "id",
\* when it is not the first column, is moved to the front, in the column list
\* and in every row
MoveToFront(seq, i) ==
    <<seq[i]>> \o SubSeq(seq, 1, i - 1) \o SubSeq(seq, i + 1, Len(seq))

IdColumnIndex(column_names) ==
    LET hits == {i \in 1..Len(column_names) : column_names[i].name = "id"}
    IN  IF hits = {} THEN 1
        ELSE CHOOSE i \in hits : \A j \in hits : i <= j

\* no promotion: the columns and the rows as they were read
IdNotPromoted(column_names, rows, count) == TableRequest(column_names, rows, count)

\* a promotion that moves the id column and leaves the rows as they are
IdPromotedColumnsOnly(column_names, rows, count) ==
    LET i == IdColumnIndex(column_names)
    IN  IF i # 1
        THEN TableRequest(MoveToFront(column_names, i), rows, count)
        ELSE TableRequest(column_names, rows, count)

IdPromoted(column_names, rows, count) ==
    LET i == IdColumnIndex(column_names)
    IN  IF i # 1
        THEN TableRequest(MoveToFront(column_names, i),
                          [r \in 1..Len(rows) |-> MoveToFront(rows[r], i)],
                          count)
        ELSE TableRequest(column_names, rows, count)

\* an embedded result with the id column promoted as the remote backend does
NativeResultPromoted(names, rows, count) ==
    IF rows = <<>>
    THEN TableRequest(<<>>, <<>>, 0)
    ELSE IdPromoted(NativeColumns(names, rows[1]), rows, count)

\* an embedded result whose row_count is the number of rows materialized
NativeResultLenCount(names, rows, count) ==
    IF rows = <<>>
    THEN TableRequest(<<>>, <<>>, 0)
    ELSE TableRequest(NativeColumns(names, rows[1]), rows, Len(rows))

\* an embedded result that reports the declared columns of an empty table
NativeResultSchema(names, rows, count) ==
    IF rows = <<>>
    THEN TableRequest([k \in 1..Len(names) |-> ColumnInfo(names[k], "NULL")], <<>>, 0)
    ELSE TableRequest(NativeColumns(names, rows[1]), rows, count)

\* get_table_data, lines 68-112 (and run_query, lines 268-312): the result
\* built from the rows and, when there is a first row, the count
NativeResult(names, rows, count) ==
    IF rows = <<>>
    THEN TableRequest(<<>>, <<>>, 0)
    ELSE TableRequest(NativeColumns(names, rows[1]), rows, count)

\* NativeDbManager::get_table_data when nothing writes between its two
\* statements
NativeGetTableData(tables, name) ==
    LET sel == NativeSelectLimited(tables, name)
    IN  IF sel.type = "Err" THEN sel
        ELSE IF sel.val.rows = <<>> THEN Ok(NativeResult(sel.val.names, <<>>, 0))
        ELSE LET cnt == NativeCount(tables, name)
             IN  IF cnt.type = "Err" THEN cnt
                 ELSE Ok(NativeResult(sel.val.names, sel.val.rows, cnt.val))

\* get_all_tables, native.rs lines 122-138
NativeGetAllTables(tables) ==
    Ok([i \in 1..Len(tables) |-> tables[i].name])

\* a binding that hands every number to the engine as text
ToSqlAsText(value) ==
    CASE value.tag = "Text" -> [ty |-> "text", v |-> value.v]
      [] value.tag = "Integer" -> [ty |-> "text", v |-> <<"5">>]
      [] value.tag = "Real" -> [ty |-> "text", v |-> <<"2">>]
      [] value.tag = "Blob" -> [ty |-> "blob", v |-> value.v]
      [] value.tag = "Null" -> [ty |-> "null", v |-> 0]

\* the parameters insert_row and update_row bind (native.rs lines 186-195,
\* 228-234): a SerializableValue as the engine stores it
ToSql(value) ==
    CASE value.tag = "Text" -> [ty |-> "text", v |-> value.v]
      [] value.tag = "Integer" -> [ty |-> "integer", v |-> value.v]
      [] value.tag = "Real" -> [ty |-> "real", v |-> value.v]
      [] value.tag = "Blob" -> [ty |-> "blob", v |-> value.v]
      [] value.tag = "Null" -> [ty |-> "null", v |-> 0]

\* remove_row, native.rs lines 151-162: the message, and the database afterwards
NativeRemoveRow(tables, name, col, id) ==
    LET r == SqlDelete(tables, name, col, id)
    IN  IF r.type = "Err" THEN [res |-> r, tables |-> tables]
        ELSE [res |-> Ok("Row removed successfully"), tables |-> r.val]

\* insert_row, native.rs lines 174-200
NativeInsertRow(tables, name, row) ==
    LET r == SqlInsert(tables, name, [i \in 1..Len(row) |-> ToSql(row[i])])
    IN  IF r.type = "Err" THEN [res |-> r, tables |-> tables]
        ELSE [res |-> Ok("Row added successfully"), tables |-> r.val]

\* update_row, native.rs lines 215-239
NativeUpdateRow(tables, name, col, index_col, id, value) ==
    LET r == SqlUpdate(tables, name, col, index_col, id, ToSql(value))
    IN  IF r.type = "Err" THEN [res |-> r, tables |-> tables]
        ELSE [res |-> Ok("Row updated successfully"), tables |-> r.val]

(***************************************************************************)
(* The remote backend (libsql.rs).  The service answers an execute with    *)
(* rows that are maps from column name to value, or fails.                 *)
(***************************************************************************)
\* decimal digits of a natural number
RECURSIVE Digits(_)
Digits(n) ==
    LET d == <<"0", "1", "2", "3", "4", "5", "6", "7", "8", "9">>[(n % 10) + 1]
    IN  IF n < 10 THEN <<d>> ELSE Append(Digits(n \div 10), d)

Quote == "\""

\* Display of a libsql_client value (value.to_string()): a text is written as
\* a JSON string, in quotes
ValueToString(value) ==
    CASE value.ty = "null" -> <<"n", "u", "l", "l">>
      [] value.ty = "integer" ->
            IF value.v < 0 THEN <<"-">> \o Digits(0 - value.v) ELSE Digits(value.v)
      [] value.ty = "real" -> Digits(value.v)
      [] value.ty = "text" -> <<Quote>> \o value.v \o <<Quote>>
      [] value.ty = "blob" -> <<"{", "}">>

\* str::trim_matches('"')
RECURSIVE TrimQuotes(_)
TrimQuotes(s) ==
    IF s = <<>> THEN s
    ELSE IF Head(s) = Quote THEN TrimQuotes(Tail(s))
    ELSE IF s[Len(s)] = Quote THEN TrimQuotes(SubSeq(s, 1, Len(s) - 1))
    ELSE s

\* get_all_tables, libsql.rs lines 44-66: the names of the catalog, unquoted,
\* those starting with _ left out
RECURSIVE LibsqlTableNames(_)
LibsqlTableNames(tables) ==
    IF tables = <<>> THEN <<>>
    ELSE LET table_name == TrimQuotes(ValueToString(SqlText(Head(tables).name)))
         IN  IF StartsWith(table_name, <<"_">>)
             THEN LibsqlTableNames(Tail(tables))
             ELSE <<table_name>> \o LibsqlTableNames(Tail(tables))

LibsqlGetAllTables(tables, up) ==
    IF ~up THEN Err("connection failed")
    ELSE Ok(LibsqlTableNames(tables))

\* the orders in which a row map's keys can be iterated
KeyOrders(cols) ==
    {o \in [1..Len(cols) -> 1..Len(cols)] : \A i, j \in 1..Len(cols) : o[i] = o[j] => i = j}

\* a remote get_table_data that hands values over with their own variants
LibsqlGetTableDataTyped(tables, name, up, o) ==
    IF ~up THEN Err("connection failed")
    ELSE IF ~HasTable(tables, name) THEN Err("no such table")
    ELSE LET t == TableOf(tables, name)
             column_names ==
                 IF t.rows = <<>> THEN <<>>
                 ELSE [k \in 1..Len(t.cols) |->
                         ColumnInfo(t.cols[o[k]], TypeName(FromValue(t.rows[1][o[k]])))]
             rows ==
                 [i \in 1..Len(t.rows) |->
                     [k \in 1..Len(column_names) |-> FromValue(t.rows[i][o[k]])]]
         IN  Ok(IdPromoted(column_names, rows, 0))

\* a remote get_table_data that reports the number of rows it returns
LibsqlGetTableDataCounted(tables, name, up, o) ==
    IF ~up THEN Err("connection failed")
    ELSE IF ~HasTable(tables, name) THEN Err("no such table")
    ELSE LET t == TableOf(tables, name)
             column_names ==
                 IF t.rows = <<>> THEN <<>>
                 ELSE [k \in 1..Len(t.cols) |-> ColumnInfo(t.cols[o[k]], "TEXT")]
             rows ==
                 [i \in 1..Len(t.rows) |->
                     [k \in 1..Len(column_names) |->
                         [tag |-> "Text", v |-> ValueToString(t.rows[i][o[k]])]]]
         IN  Ok(IdPromoted(column_names, rows, Len(rows)))

\* get_table_data, libsql.rs lines 77-130: "SELECT * FROM <table>"; the
\* columns are the first row's keys in the order o the map yields them, all
\* typed TEXT; every value is the text of its display; the id column is moved
\* to the front; row_count is 0
LibsqlGetTableData(tables, name, up, o) ==
    IF ~up THEN Err("connection failed")
    ELSE IF ~HasTable(tables, name) THEN Err("no such table")
    ELSE LET t == TableOf(tables, name)
             column_names ==
                 IF t.rows = <<>> THEN <<>>
                 ELSE [k \in 1..Len(t.cols) |-> ColumnInfo(t.cols[o[k]], "TEXT")]
             rows ==
                 [i \in 1..Len(t.rows) |->
                     [k \in 1..Len(column_names) |->
                         [tag |-> "Text", v |-> ValueToString(t.rows[i][o[k]])]]]
         IN  Ok(IdPromoted(column_names, rows, 0))

\* the literal insert_row and update_row write for a value (libsql.rs lines
\* 173-189, 223-239), as the service stores it
LibsqlLiteral(value) ==
    CASE value.tag = "Text" -> [ty |-> "text", v |-> value.v]
      [] value.tag = "Blob" -> [ty |-> "text", v |-> <<"b", "l", "o", "b">>]
      [] value.tag = "Null" -> [ty |-> "text", v |-> <<"n", "u", "l", "l">>]
      [] value.tag = "Integer" -> [ty |-> "integer", v |-> value.v]
      [] value.tag = "Real" -> [ty |-> "real", v |-> value.v]

\* remove_row, libsql.rs lines 143-154
LibsqlRemoveRow(tables, name, col, id, up) ==
    LET r == SqlDelete(tables, name, col, id)
    IN  IF ~up THEN [res |-> Err("connection failed"), tables |-> tables]
        ELSE IF r.type = "Err" THEN [res |-> r, tables |-> tables]
        ELSE [res |-> Ok("Row removed successfully"), tables |-> r.val]

\* insert_row, libsql.rs lines 166-199
LibsqlInsertRow(tables, name, row, up) ==
    LET r == SqlInsert(tables, name, [i \in 1..Len(row) |-> LibsqlLiteral(row[i])])
    IN  IF ~up THEN [res |-> Err("connection failed"), tables |-> tables]
        ELSE IF r.type = "Err" THEN [res |-> r, tables |-> tables]
        ELSE [res |-> Ok("Row inserted successfully"), tables |-> r.val]

\* update_row, libsql.rs lines 214-245: the WHERE clause names the column id,
\* whatever _index_col_name is
LibsqlUpdateRow(tables, name, col, index_col, id, value, up) ==
    LET r == SqlUpdate(tables, name, col, "id", id, LibsqlLiteral(value))
    IN  IF ~up THEN [res |-> Err("connection failed"), tables |-> tables]
        ELSE IF r.type = "Err" THEN [res |-> r, tables |-> tables]
        ELSE [res |-> Ok("Row updated successfully"), tables |-> r.val]

(***************************************************************************)
(* The dispatcher and the commands (db_manager.rs, main.rs)                *)
(***************************************************************************)
Threads == 1..NumThreads

TName == <<"t">>
OtherName == <<"z">>
HiddenName == <<"_", "m">>

\* the connection strings commands are given
PathDb == <<"/", "d">>
PathMissing == <<"/", "x">>
PathJunk == <<"/", "j">>
PathRelative == <<"d">>
PathRemote == Scheme \o <<"h">> \o Sep \o <<"k">>
PathMalformed == Scheme \o <<"h">>

ConnectInputs == {PathDb, PathMissing, PathJunk, PathRelative, PathRemote, PathMalformed}

\* the paths connect_to_db can open
FilePaths == {ConnectionTypeOf(p).path : p \in {PathDb, PathMissing, PathJunk, PathRelative}}

\* a rusqlite connection: to a file, or to a private in-memory database
InMemory == [at |-> "memory", path |-> <<>>]
OnFile(p) == [at |-> "file", path |-> p]
\* a libsql_client::SyncClient
Client(host, token) == [at |-> "remote", path |-> host]

NativeDbManager(id, conn) == [id |-> id, kind |-> "native", conn |-> conn]
LibsqlDbManager(id, client) == [id |-> id, kind |-> "libsql", conn |-> client]

\* an open that creates the file instead of falling back
OpenOrCreate(path) == OnFile(path)

\* Connection::open_with_flags(path, SQLITE_OPEN_READ_WRITE)
\*     .unwrap_or(Connection::open_in_memory().unwrap()), db_manager.rs lines 88-94
OpenOrMemory(path) ==
    IF files[path].kind = "missing" THEN InMemory ELSE OnFile(path)

\* the tables a rusqlite connection sees; an in-memory database has none
ConnTables(conn) == IF conn.at = "file" THEN files[conn.path].tables ELSE <<>>

\* every statement on a file that is no database fails to prepare
NotADatabase(conn) == conn.at = "file" /\ files[conn.path].kind = "junk"

ConnectionResponse(tables, table_data) ==
    [tables |-> tables,
     column_names |-> table_data.column_names,
     preview_rows |-> table_data.rows,
     row_count |-> table_data.row_count]

NoCommand == [name |-> "none"]
NoLocals == [names |-> <<>>, rows |-> <<>>, tables |-> <<>>, name |-> <<>>]

MainIdle ==
    /\ db = NativeDbManager(0, InMemory)
    /\ lock = 0
    /\ poisoned = FALSE
    /\ files = <<>>
    /\ remote = <<>>
    /\ nextId = 0
    /\ ncalls = 0
    /\ pc = <<>>
    /\ cmd = <<>>
    /\ loc = <<>>
    /\ res = <<>>
    /\ pre = <<>>
    /\ used = <<>>

\* the rows a table t(name, id) starts with
InitialRows == {<<>>, <<<<SqlText(<<"a">>), SqlInteger(1)>>>>}

TableT(rows) == [name |-> TName, cols |-> <<"name", "id">>, rows |-> rows]
TableHidden == [name |-> HiddenName, cols |-> <<"id">>, rows |-> <<>>]

\* DbManager::new() (main.rs line 405); a database with table t at /d, a file
\* that is no database at /j, a database without tables at <cwd>/../d, nothing
\* at /x; a remote service with tables _m and t
InitDb ==
    /\ db = NativeDbManager(0, InMemory)
    /\ lock = 0
    /\ poisoned = FALSE
    /\ \E r \in InitialRows :
          files = [p \in FilePaths |->
                      CASE p = PathDb -> [kind |-> "db", tables |-> <<TableT(r)>>]
                        [] p = PathJunk -> [kind |-> "junk", tables |-> <<>>]
                        [] p = PathMissing -> [kind |-> "missing", tables |-> <<>>]
                        [] OTHER -> [kind |-> "db", tables |-> <<>>]]
    /\ \E r \in InitialRows : remote = <<TableHidden, TableT(r)>>
    /\ nextId = 1
    /\ ncalls = 0
    /\ pc = [t \in Threads |-> "idle"]
    /\ cmd = [t \in Threads |-> NoCommand]
    /\ loc = [t \in Threads |-> NoLocals]
    /\ res = [t \in Threads |-> Unset]
    /\ pre = [t \in Threads |-> 0]
    /\ used = [t \in Threads |-> {}]

\* the main specification starts without the polling task
Init ==
    /\ InitDb
    /\ ResolveIdle
    /\ FetchIdle
    /\ RowsIdle
    /\ PollIdle

Commands == {"connect_to_db", "get_table_data", "remove_row", "insert_row",
             "update_row", "sql_query"}

\* the command/IPC layer invokes a command on thread t
Invoke(t, name) ==
    /\ pc[t] = "idle"
    /\ ncalls < MaxCalls
    /\ ncalls' = ncalls + 1
    /\ pc' = [pc EXCEPT ![t] = "wait"]
    /\ cmd' = [cmd EXCEPT ![t] = [name |-> name]]
    /\ UNCHANGED <<db, lock, poisoned, worldVars, nextId, loc, res, pre, used>>
    /\ UNCHANGED <<resolveVars, fetchVars, rowVars, pollVars>>

\* a lock() that does not wait for the holder
LockNoWait(t) ==
    /\ pc[t] = "wait"
    /\ IF poisoned
       THEN /\ pc' = [pc EXCEPT ![t] = "panicked"]
            /\ res' = [res EXCEPT ![t] = Panic]
            /\ UNCHANGED <<lock, pre>>
       ELSE /\ lock' = t
            /\ pc' = [pc EXCEPT ![t] = "held"]
            /\ pre' = [pre EXCEPT ![t] = db.id]
            /\ UNCHANGED res
    /\ UNCHANGED <<db, poisoned, worldVars, nextId, ncalls, cmd, loc, used>>
    /\ UNCHANGED <<resolveVars, fetchVars, rowVars, pollVars>>

\* state.db.lock().unwrap(), the first line of every database command: blocks
\* while another thread holds the mutex; panics when the mutex is poisoned
Lock(t) ==
    /\ pc[t] = "wait"
    /\ lock = 0
    /\ IF poisoned
       THEN /\ pc' = [pc EXCEPT ![t] = "panicked"]
            /\ res' = [res EXCEPT ![t] = Panic]
            /\ UNCHANGED <<lock, pre>>
       ELSE /\ lock' = t
            /\ pc' = [pc EXCEPT ![t] = "held"]
            /\ pre' = [pre EXCEPT ![t] = db.id]
            /\ UNCHANGED res
    /\ UNCHANGED <<db, poisoned, worldVars, nextId, ncalls, cmd, loc, used>>
    /\ UNCHANGED <<resolveVars, fetchVars, rowVars, pollVars>>

\* a panic of thread t while it holds the guard: unwinding drops the guard,
\* which unlocks the mutex and poisons it
Panics(t) ==
    /\ pc' = [pc EXCEPT ![t] = "panicked"]
    /\ res' = [res EXCEPT ![t] = Panic]
    /\ lock' = 0
    /\ poisoned' = TRUE

\* thread t reaches the end of its command with result r, the guard still held
Ends(t, r) ==
    /\ pc' = [pc EXCEPT ![t] = "ret"]
    /\ res' = [res EXCEPT ![t] = r]
    /\ UNCHANGED <<lock, poisoned>>

\* the command returns: the guard is dropped
Return(t) ==
    /\ pc[t] = "ret"
    /\ lock' = 0
    /\ pc' = [pc EXCEPT ![t] = "idle"]
    /\ cmd' = [cmd EXCEPT ![t] = NoCommand]
    /\ loc' = [loc EXCEPT ![t] = NoLocals]
    /\ res' = [res EXCEPT ![t] = Unset]
    /\ pre' = [pre EXCEPT ![t] = 0]
    /\ used' = [used EXCEPT ![t] = {}]
    /\ UNCHANGED <<db, poisoned, worldVars, nextId, ncalls>>
    /\ UNCHANGED <<resolveVars, fetchVars, rowVars, pollVars>>

\* DbManager::connect_to_db, db_manager.rs lines 66-110: the connection type is
\* resolved, the backend built and stored in self.db; a malformed string and
\* a remote client that cannot be built panic before self.db is assigned
ConnectToDb(t, path) ==
    /\ pc[t] = "held"
    /\ cmd[t].name = "connect_to_db"
    /\ cmd' = [cmd EXCEPT ![t] = [name |-> "connect_to_db", path |-> path]]
    /\ LET connection_type == ConnectionTypeOf(path)
       IN  CASE connection_type.type = "Panic" ->
                    /\ Panics(t)
                    /\ UNCHANGED <<db, nextId>>
             [] connection_type.type = "Sqlite" ->
                    /\ db' = NativeDbManager(nextId, OpenOrMemory(connection_type.path))
                    /\ nextId' = nextId + 1
                    /\ pc' = [pc EXCEPT ![t] = "swapped"]
                    /\ UNCHANGED <<lock, poisoned, res>>
             [] connection_type.type = "Libsql" ->
                    \E built \in BOOLEAN :
                        IF built
                        THEN /\ db' = LibsqlDbManager(nextId,
                                         Client(connection_type.host, connection_type.token))
                             /\ nextId' = nextId + 1
                             /\ pc' = [pc EXCEPT ![t] = "swapped"]
                             /\ UNCHANGED <<lock, poisoned, res>>
                        ELSE /\ Panics(t)
                             /\ UNCHANGED <<db, nextId>>
    /\ UNCHANGED <<worldVars, ncalls, loc, pre, used>>
    /\ UNCHANGED <<resolveVars, fetchVars, rowVars, pollVars>>

\* what a command returns for the table data r: connect_to_db (main.rs lines
\* 109-114) wraps it in its response, and returns its error as it is
Wrapped(t, r) ==
    IF cmd[t].name = "connect_to_db" /\ r.type = "Ok"
    THEN Ok(ConnectionResponse(loc[t].tables, r.val))
    ELSE r

\* connect_to_db, main.rs lines 105-108: get_all_tables()? on the new backend;
\* without tables the default response is returned
ConnectListTables(t) ==
    /\ pc[t] = "swapped"
    /\ used' = [used EXCEPT ![t] = @ \cup {db.id}]
    /\ \E up \in BOOLEAN :
          LET tables ==
                  IF db.kind = "native"
                  THEN IF NotADatabase(db.conn)
                       THEN Err("file is not a database")
                       ELSE NativeGetAllTables(ConnTables(db.conn))
                  ELSE LibsqlGetAllTables(remote, up)
          IN  /\ db.kind = "native" => up
              /\ IF tables.type = "Err"
                 THEN Ends(t, tables) /\ UNCHANGED loc
                 ELSE IF tables.val = <<>>
                 THEN /\ Ends(t, Ok(ConnectionResponse(<<>>, TableRequest(<<>>, <<>>, 0))))
                      /\ UNCHANGED loc
                 ELSE /\ pc' = [pc EXCEPT ![t] = "listed"]
                      /\ loc' = [loc EXCEPT ![t].tables = tables.val]
                      /\ UNCHANGED <<lock, poisoned, res>>
    /\ UNCHANGED <<db, worldVars, nextId, ncalls, cmd, pre>>
    /\ UNCHANGED <<resolveVars, fetchVars, rowVars, pollVars>>

\* a command that lets go of the guard between its two statements
HoldsRowsUnlocked(t, at, names, rows, name) ==
    /\ pc' = [pc EXCEPT ![t] = at]
    /\ loc' = [loc EXCEPT ![t].names = names, ![t].rows = rows, ![t].name = name]
    /\ lock' = 0
    /\ UNCHANGED <<poisoned, res>>

\* the embedded backend has collected its rows (native.rs lines 56-66, 256-266)
\* and goes on to its count statement, the guard still held
HoldsRows(t, at, names, rows, name) ==
    /\ pc' = [pc EXCEPT ![t] = at]
    /\ loc' = [loc EXCEPT ![t].names = names, ![t].rows = rows, ![t].name = name]
    /\ UNCHANGED <<lock, poisoned, res>>

\* DbManager::get_table_data on the active backend, up to the point where the
\* embedded backend has collected its rows (native.rs lines 47-66); the remote
\* backend's whole get_table_data is its one execute (libsql.rs lines 77-130)
TableDataRows(t, name) ==
    /\ used' = [used EXCEPT ![t] = @ \cup {db.id}]
    /\ IF db.kind = "native"
       THEN LET sel == IF NotADatabase(db.conn)
                       THEN Err("file is not a database")
                       ELSE NativeSelectLimited(ConnTables(db.conn), name)
            IN  IF sel.type = "Err"
                THEN Ends(t, Wrapped(t, sel)) /\ UNCHANGED loc
                ELSE IF sel.val.rows = <<>>
                THEN /\ Ends(t, Wrapped(t, Ok(NativeResult(sel.val.names, <<>>, 0))))
                     /\ UNCHANGED loc
                ELSE HoldsRows(t, "rows", sel.val.names, sel.val.rows, name)
       ELSE /\ \E up \in BOOLEAN :
                \E o \in KeyOrders(IF HasTable(remote, name)
                                   THEN TableOf(remote, name).cols ELSE <<>>) :
                    Ends(t, Wrapped(t, LibsqlGetTableData(remote, name, up, o)))
            /\ UNCHANGED loc
    /\ UNCHANGED <<db, worldVars, nextId, ncalls, pre>>
    /\ UNCHANGED <<resolveVars, fetchVars, rowVars, pollVars>>

\* the names get_table_data is asked for
FetchNames == {TName, OtherName}

\* the get_table_data command, main.rs lines 134-137
GetTableData(t, name) ==
    /\ pc[t] = "held"
    /\ cmd[t].name = "get_table_data"
    /\ cmd' = [cmd EXCEPT ![t] = [name |-> "get_table_data", table |-> name]]
    /\ TableDataRows(t, name)

\* connect_to_db, main.rs line 109: get_table_data(&tables[0])?
ConnectPreview(t) ==
    /\ pc[t] = "listed"
    /\ UNCHANGED cmd
    /\ TableDataRows(t, loc[t].tables[1])

\* a get_table_data that counts the rows it holds instead of asking again
TableDataCountOfRows(t) ==
    /\ pc[t] = "rows"
    /\ used' = [used EXCEPT ![t] = @ \cup {db.id}]
    /\ Ends(t, Wrapped(t, Ok(NativeResult(loc[t].names, loc[t].rows, Len(loc[t].rows)))))
    /\ UNCHANGED <<db, worldVars, nextId, ncalls, cmd, loc, pre>>
    /\ UNCHANGED <<resolveVars, fetchVars, rowVars, pollVars>>

\* the embedded get_table_data's second statement, native.rs lines 87-105:
\* the count, and the result
TableDataCount(t) ==
    /\ pc[t] = "rows"
    /\ used' = [used EXCEPT ![t] = @ \cup {db.id}]
    /\ LET cnt == NativeCount(ConnTables(db.conn), loc[t].name)
       IN  IF cnt.type = "Err"
           THEN Ends(t, Wrapped(t, cnt))
           ELSE Ends(t, Wrapped(t, Ok(NativeResult(loc[t].names, loc[t].rows, cnt.val))))
    /\ UNCHANGED <<db, worldVars, nextId, ncalls, cmd, loc, pre>>
    /\ UNCHANGED <<resolveVars, fetchVars, rowVars, pollVars>>

\* the SQL texts sql_query is given: SELECT * FROM <table>, a text that does
\* not parse, and a SELECT with a parameter (?) that nothing binds
Select(name) == [kind |-> "select", table |-> name]
Queries == {Select(TName), Select(OtherName),
            [kind |-> "syntax", table |-> <<>>],
            [kind |-> "param", table |-> TName]}

\* run_query, native.rs lines 251-266: prepare the text and collect its rows
NativeSelect(tables, query) ==
    IF query.kind = "syntax" THEN Err("syntax error")
    ELSE IF ~HasTable(tables, query.table) THEN Err("no such table")
    ELSE LET t == TableOf(tables, query.table)
         IN  Ok([names |-> t.cols,
                 rows |-> [i \in 1..Len(t.rows) |->
                             [k \in 1..Len(t.cols) |-> FromValue(t.rows[i][k])]]])

\* SELECT * FROM <table> followed by a semicolon: a text that prepares and
\* returns the table's rows, and that is no subquery
Terminated(name) == [kind |-> "terminated", table |-> name]

\* run_query, native.rs lines 287-294: "SELECT COUNT(*) FROM (<query>)", which
\* parses when the text is a plain SELECT
NativeQueryCount(tables, query) ==
    IF query.kind # "select" THEN Err("syntax error")
    ELSE IF ~HasTable(tables, query.table) THEN Err("no such table")
    ELSE Ok(Len(TableOf(tables, query.table).rows))

\* the remote backend's run_query: the raw text is executed and the rows are
\* read as get_table_data reads them
LibsqlRunQuery(tables, query, up, o) ==
    IF query.kind = "select"
    THEN LibsqlGetTableData(tables, query.table, up, o)
    ELSE IF ~up THEN Err("connection failed")
    ELSE Err("query failed")

\* the sql_query command, main.rs lines 233-236, up to the point where the
\* embedded backend has collected its rows; query_map(..).unwrap() panics when
\* the statement has a parameter, as none is bound
SqlQuery(t, query) ==
    /\ pc[t] = "held"
    /\ cmd[t].name = "sql_query"
    /\ cmd' = [cmd EXCEPT ![t] = [name |-> "sql_query", query |-> query]]
    /\ used' = [used EXCEPT ![t] = @ \cup {db.id}]
    /\ IF db.kind = "native"
       THEN LET sel == IF NotADatabase(db.conn)
                       THEN Err("file is not a database")
                       ELSE NativeSelect(ConnTables(db.conn), query)
            IN  IF sel.type = "Err"
                THEN Ends(t, sel) /\ UNCHANGED loc
                ELSE IF query.kind = "param"
                THEN Panics(t) /\ UNCHANGED loc
                ELSE IF sel.val.rows = <<>>
                THEN Ends(t, Ok(NativeResult(sel.val.names, <<>>, 0))) /\ UNCHANGED loc
                ELSE HoldsRows(t, "qrows", sel.val.names, sel.val.rows, query.table)
       ELSE /\ \E up \in BOOLEAN :
                \E o \in KeyOrders(IF HasTable(remote, query.table)
                                   THEN TableOf(remote, query.table).cols ELSE <<>>) :
                    Ends(t, LibsqlRunQuery(remote, query, up, o))
            /\ UNCHANGED loc
    /\ UNCHANGED <<db, worldVars, nextId, ncalls, pre>>
    /\ UNCHANGED <<resolveVars, fetchVars, rowVars, pollVars>>

\* run_query's second statement, native.rs lines 287-305:
\* "SELECT COUNT(*) FROM (<query>)", and the result
SqlQueryCount(t) ==
    /\ pc[t] = "qrows"
    /\ used' = [used EXCEPT ![t] = @ \cup {db.id}]
    /\ LET cnt == NativeQueryCount(ConnTables(db.conn), cmd[t].query)
       IN  IF cnt.type = "Err"
           THEN Ends(t, cnt)
           ELSE Ends(t, Ok(NativeResult(loc[t].names, loc[t].rows, cnt.val)))
    /\ UNCHANGED <<db, worldVars, nextId, ncalls, cmd, loc, pre>>
    /\ UNCHANGED <<resolveVars, fetchVars, rowVars, pollVars>>

\* a statement of the active backend that changes rows has run with outcome r
\* ([res, tables]): the result is returned and the tables are stored
Executed(t, r) ==
    /\ Ends(t, r.res)
    /\ used' = [used EXCEPT ![t] = @ \cup {db.id}]
    /\ IF db.kind = "libsql"
       THEN remote' = r.tables /\ UNCHANGED files
       ELSE /\ files' = IF db.conn.at = "file"
                        THEN [files EXCEPT ![db.conn.path].tables = r.tables]
                        ELSE files
            /\ UNCHANGED remote
    /\ UNCHANGED <<db, nextId, ncalls, loc, pre>>
    /\ UNCHANGED <<resolveVars, fetchVars, rowVars, pollVars>>

\* the outcome of a statement on a rusqlite connection
OnConnection(conn, r) ==
    IF NotADatabase(conn)
    THEN [res |-> Err("file is not a database"), tables |-> ConnTables(conn)]
    ELSE r

\* the remove_row command, main.rs lines 155-163
RemoveRow(t, name, col, id) ==
    /\ pc[t] = "held"
    /\ cmd[t].name = "remove_row"
    /\ cmd' = [cmd EXCEPT ![t] = [name |-> "remove_row", table |-> name,
                                  col |-> col, id |-> id]]
    /\ IF db.kind = "native"
       THEN Executed(t, OnConnection(db.conn,
                            NativeRemoveRow(ConnTables(db.conn), name, col, id)))
       ELSE \E up \in BOOLEAN : Executed(t, LibsqlRemoveRow(remote, name, col, id, up))

\* the active backend's table called name has fewer than MaxStored rows
HasRoom(name) ==
    LET tables == IF db.kind = "native" THEN ConnTables(db.conn) ELSE remote
    IN  HasTable(tables, name) => Len(TableOf(tables, name).rows) < MaxStored

\* the insert_row command, main.rs lines 180-187
InsertRow(t, name, row) ==
    /\ pc[t] = "held"
    /\ cmd[t].name = "insert_row"
    /\ HasRoom(name)
    /\ cmd' = [cmd EXCEPT ![t] = [name |-> "insert_row", table |-> name, row |-> row]]
    /\ IF db.kind = "native"
       THEN Executed(t, OnConnection(db.conn,
                            NativeInsertRow(ConnTables(db.conn), name, row)))
       ELSE \E up \in BOOLEAN : Executed(t, LibsqlInsertRow(remote, name, row, up))

\* the update_row command, main.rs lines 207-217
UpdateRow(t, name, col, index_col, id, value) ==
    /\ pc[t] = "held"
    /\ cmd[t].name = "update_row"
    /\ cmd' = [cmd EXCEPT ![t] = [name |-> "update_row", table |-> name, col |-> col,
                                  index_col |-> index_col, id |-> id, value |-> value]]
    /\ IF db.kind = "native"
       THEN Executed(t, OnConnection(db.conn,
                            NativeUpdateRow(ConnTables(db.conn), name, col, index_col, id, value)))
       ELSE \E up \in BOOLEAN :
                Executed(t, LibsqlUpdateRow(remote, name, col, index_col, id, value, up))

\* the arguments the row commands are given
VText(s) == [tag |-> "Text", v |-> s]
VInteger(i) == [tag |-> "Integer", v |-> i]
InsertedRows == {<<VText(<<"a">>), VInteger(1)>>, <<VInteger(1)>>}
UpdateValues == {VText(<<"b">>)}
RowIds == {1, 2}

Next ==
    \E t \in Threads :
        \/ \E name \in Commands : Invoke(t, name)
        \/ Lock(t)
        \/ \E path \in ConnectInputs : ConnectToDb(t, path)
        \/ ConnectListTables(t)
        \/ ConnectPreview(t)
        \/ \E name \in FetchNames : GetTableData(t, name)
        \/ TableDataCount(t)
        \/ \E query \in Queries : SqlQuery(t, query)
        \/ SqlQueryCount(t)
        \/ \E name \in FetchNames, id \in RowIds : RemoveRow(t, name, "id", id)
        \/ \E row \in InsertedRows : InsertRow(t, TName, row)
        \/ \E value \in UpdateValues : UpdateRow(t, TName, "name", "id", 1, value)
        \/ Return(t)

Spec == Init /\ [][Next]_vars

(***************************************************************************)
(* The writer specification: the commands that connect and read, and       *)
(* another process that has the database file at path p open and writes    *)
(* to table t.  The file is opened by path (db_manager.rs lines 88-93) and *)
(* the mutex of AppState is private to this process, so the writer takes   *)
(* no lock.                                                                *)
(***************************************************************************)
ExternalWrite(p) ==
    /\ files[p].kind = "db"
    /\ HasTable(files[p].tables, TName)
    /\ LET t == TableOf(files[p].tables, TName)
       IN  \E rows \in {Append(t.rows, <<SqlText(<<"a">>), SqlInteger(1)>>),
                         SubSeq(t.rows, 2, Len(t.rows))} :
               /\ rows # t.rows
               /\ Len(rows) <= MaxStored
               /\ files' = [files EXCEPT ![p].tables = WithRows(@, TName, rows)]
    /\ UNCHANGED <<db, lock, poisoned, remote, nextId, ncalls, pc, cmd, loc, res, pre, used>>
    /\ UNCHANGED <<resolveVars, fetchVars, rowVars, pollVars>>

NextWriter ==
    \/ \E t \in Threads :
          \/ \E name \in {"connect_to_db", "get_table_data", "sql_query"} : Invoke(t, name)
          \/ Lock(t)
          \/ \E path \in ConnectInputs : ConnectToDb(t, path)
          \/ ConnectListTables(t)
          \/ ConnectPreview(t)
          \/ \E name \in FetchNames : GetTableData(t, name)
          \/ TableDataCount(t)
          \/ \E query \in Queries : SqlQuery(t, query)
          \/ SqlQueryCount(t)
          \/ Return(t)
    \/ \E p \in FilePaths : ExternalWrite(p)

SpecWriter == Init /\ [][NextWriter]_vars

(***************************************************************************)
(* The polling specification: the database commands, register_callback    *)
(* and the task that main spawns with periodic_callback (main.rs lines     *)
(* 411-413).  AppState holds two mutexes, db and callbacks (lines 80-83).  *)
(***************************************************************************)
\* the polling task, named as a thread beside the command threads
Poller == NumThreads + 1

\* the keys periodic_callback looks for, and one it passes over
CallbackNames == {"macAddress", "freeTrialPopup", "other"}

\* the command/IPC layer invokes register_callback on thread t
InvokeRegister(t, function_name) ==
    /\ pc[t] = "idle"
    /\ ncalls < MaxPollCalls
    /\ ncalls' = ncalls + 1
    /\ pc' = [pc EXCEPT ![t] = "cwait"]
    /\ cmd' = [cmd EXCEPT ![t] = [name |-> "register_callback",
                                  function_name |-> function_name]]
    /\ UNCHANGED <<db, lock, poisoned, worldVars, nextId, loc, res, pre, used>>
    /\ UNCHANGED <<resolveVars, fetchVars, rowVars, pollVars>>

\* state.callbacks.lock().unwrap(), main.rs line 274
RegisterLock(t) ==
    /\ pc[t] = "cwait"
    /\ cblock = 0
    /\ IF cbpoisoned
       THEN /\ pc' = [pc EXCEPT ![t] = "panicked"]
            /\ res' = [res EXCEPT ![t] = Panic]
            /\ UNCHANGED cblock
       ELSE /\ cblock' = t
            /\ pc' = [pc EXCEPT ![t] = "cheld"]
            /\ UNCHANGED res
    /\ UNCHANGED <<db, lock, poisoned, worldVars, nextId, ncalls, cmd, loc, pre, used>>
    /\ UNCHANGED <<callbacks, cbpoisoned, ppc>>
    /\ UNCHANGED <<resolveVars, fetchVars, rowVars>>

\* the closure is built and inserted under its key, replacing an earlier one,
\* and the guard is dropped as register_callback returns (lines 275-281)
RegisterInsert(t) ==
    /\ pc[t] = "cheld"
    /\ callbacks' = callbacks \cup {cmd[t].function_name}
    /\ cblock' = 0
    /\ pc' = [pc EXCEPT ![t] = "idle"]
    /\ cmd' = [cmd EXCEPT ![t] = NoCommand]
    /\ UNCHANGED <<db, lock, poisoned, worldVars, nextId, ncalls, loc, res, pre, used>>
    /\ UNCHANGED <<cbpoisoned, ppc>>
    /\ UNCHANGED <<resolveVars, fetchVars, rowVars>>

\* interval.tick().await completes (line 314)
Tick ==
    /\ ppc = "sleep"
    /\ ppc' = "tick"
    /\ UNCHANGED <<callbacks, cblock, cbpoisoned>>
    /\ UNCHANGED <<resolveVars, fetchVars, mainVars, rowVars>>

\* a polling task that takes the database mutex together with the registry's
TickLockBoth ==
    /\ ppc = "tick"
    /\ cblock = 0
    /\ lock = 0
    /\ cblock' = Poller
    /\ lock' = Poller
    /\ ppc' = "locked"
    /\ UNCHANGED <<db, poisoned, worldVars, nextId, ncalls, pc, cmd, loc, res, pre, used>>
    /\ UNCHANGED <<callbacks, cbpoisoned>>
    /\ UNCHANGED <<resolveVars, fetchVars, rowVars>>

\* call_back_mutex_clone.lock().unwrap(), line 315: the task blocks while a
\* registration holds the mutex and panics when the mutex is poisoned
TickLock ==
    /\ ppc = "tick"
    /\ cblock = 0
    /\ IF cbpoisoned
       THEN /\ ppc' = "dead"
            /\ UNCHANGED cblock
       ELSE /\ cblock' = Poller
            /\ ppc' = "locked"
    /\ UNCHANGED <<callbacks, cbpoisoned>>
    /\ UNCHANGED <<resolveVars, fetchVars, mainVars, rowVars>>

\* the loop over the registry, lines 316-335: the callbacks under macAddress
\* and freeTrialPopup are called, last_shown (a mutex of this task alone) is
\* taken and released inside, and the guard is dropped at the end of the
\* iteration
TickRun ==
    /\ ppc = "locked"
    /\ cblock' = 0
    /\ ppc' = "sleep"
    /\ UNCHANGED <<callbacks, cbpoisoned>>
    /\ UNCHANGED <<resolveVars, fetchVars, mainVars, rowVars>>

\* an unwrap() inside the loop panics (get_mac_address at line 318, window.eval
\* in a callback, lines 275-279): the task ends, the guard is dropped by the
\* unwinding and the mutex is poisoned
TickPanics ==
    /\ ppc = "locked"
    /\ callbacks \cap {"macAddress", "freeTrialPopup"} # {}
    /\ cblock' = 0
    /\ cbpoisoned' = TRUE
    /\ ppc' = "dead"
    /\ UNCHANGED callbacks
    /\ UNCHANGED <<resolveVars, fetchVars, mainVars, rowVars>>

\* tokio::spawn(periodic_callback(1, ..)) before the commands are served
InitPoll ==
    /\ InitDb
    /\ callbacks = {}
    /\ cblock = 0
    /\ cbpoisoned = FALSE
    /\ ppc = "sleep"
    /\ ResolveIdle
    /\ FetchIdle
    /\ RowsIdle

NextPoll ==
    \/ \E t \in Threads :
          \/ \E name \in Commands : ncalls < MaxPollCalls /\ Invoke(t, name)
          \/ \E function_name \in CallbackNames : InvokeRegister(t, function_name)
          \/ Lock(t)
          \/ ConnectToDb(t, PathDb)
          \/ ConnectListTables(t)
          \/ ConnectPreview(t)
          \/ GetTableData(t, TName)
          \/ TableDataCount(t)
          \/ SqlQuery(t, Select(TName))
          \/ SqlQueryCount(t)
          \/ RemoveRow(t, TName, "id", 1)
          \/ InsertRow(t, TName, <<VText(<<"a">>), VInteger(1)>>)
          \/ UpdateRow(t, TName, "name", "id", 1, VText(<<"b">>))
          \/ Return(t)
          \/ RegisterLock(t)
          \/ RegisterInsert(t)
    \/ Tick
    \/ TickLock
    \/ TickRun
    \/ TickPanics

\* the polling task and a registration that holds the registry's mutex keep
\* running; nothing is assumed about how long a database command takes
SpecPoll ==
    /\ InitPoll
    /\ [][NextPoll]_vars
    /\ WF_vars(TickLock)
    /\ WF_vars(TickRun \/ TickPanics)
    /\ \A t \in Threads : WF_vars(RegisterInsert(t))

(***************************************************************************)
(* The resolver specification: every connection string up to MaxLen        *)
(* characters after an optional (or damaged) scheme is resolved once.      *)
(***************************************************************************)
RECURSIVE StringsUpTo(_)
StringsUpTo(n) ==
    IF n = 0 THEN {<<>>}
    ELSE LET shorter == StringsUpTo(n - 1)
         IN  shorter \cup {Append(s, c) : s \in {x \in shorter : Len(x) = n - 1}, c \in Alphabet}

\* "libsql:/", a scheme with its last character missing
NearScheme == SubSeq(Scheme, 1, Len(Scheme) - 1)

Prefixes == {<<>>, Scheme, NearScheme}

ResolverInputs == {p \o b : p \in Prefixes, b \in StringsUpTo(MaxLen)}

InitResolve ==
    /\ rin \in ResolverInputs
    /\ rout = Unset
    /\ FetchIdle
    /\ MainIdle
    /\ RowsIdle
    /\ PollIdle

Resolve ==
    /\ rout = Unset
    /\ rout' = ConnectionTypeOf(rin)
    /\ UNCHANGED <<rin, fetchVars, mainVars, rowVars, pollVars>>

NextResolve == Resolve

SpecResolve == InitResolve /\ [][NextResolve]_vars

(***************************************************************************)
(* The fetch specification: NativeDbManager::get_table_data on one table   *)
(* of every column order and every size up to MaxRows, with no writer.     *)
(***************************************************************************)
ColumnNames == {"id", "name", "value"}

ColumnOrders ==
    {c \in UNION {[1..n -> ColumnNames] : n \in 1..3} :
        \A i, j \in DOMAIN c : c[i] = c[j] => i = j}

\* the stored value of column c in row i; v shifts which rows hold a NULL
Cell(c, i, v) ==
    CASE c = "id" -> SqlInteger(i)
      [] c = "name" -> SqlText(<<"a">>)
      [] c = "value" -> IF (i + v) % 2 = 1 THEN SqlNull ELSE SqlInteger(i)

StoredTable(cols, n, v) ==
    [name |-> TName,
     cols |-> cols,
     rows |-> [i \in 1..n |-> [k \in 1..Len(cols) |-> Cell(cols[k], i, v)]]]

InitFetch ==
    /\ \E cols \in ColumnOrders, n \in 0..MaxRows, v \in {0, 1} :
          ftab = <<StoredTable(cols, n, v)>>
    /\ fname \in {TName, OtherName}
    /\ fout = Unset
    /\ ResolveIdle
    /\ MainIdle
    /\ RowsIdle
    /\ PollIdle

FetchTable ==
    /\ fout = Unset
    /\ fout' = NativeGetTableData(ftab, fname)
    /\ UNCHANGED <<ftab, fname, resolveVars, mainVars, rowVars, pollVars>>

NextFetch == FetchTable

SpecFetch == InitFetch /\ [][NextFetch]_vars

(***************************************************************************)
(* The row specification: one backend, embedded or remote, on a database   *)
(* with one table; up to MaxOps calls of insert_row, remove_row,           *)
(* update_row, get_table_data and run_query, each logged with its          *)
(* arguments, the table before and after it, and its result.               *)
(***************************************************************************)
\* a run_query that reads and counts as get_table_data does
NativeRunQueryAsFetch(tables, query) ==
    IF query.kind = "syntax" THEN Err("syntax error")
    ELSE NativeGetTableData(tables, query.table)

\* NativeDbManager::run_query, native.rs lines 250-315, when nothing writes
\* between its two statements
NativeRunQuery(tables, query) ==
    LET sel == NativeSelect(tables, query)
    IN  IF sel.type = "Err" THEN sel
        ELSE IF query.kind = "param" THEN Panic
        ELSE IF sel.val.rows = <<>> THEN Ok(NativeResult(sel.val.names, <<>>, 0))
        ELSE LET cnt == NativeQueryCount(tables, query)
             IN  IF cnt.type = "Err" THEN cnt
                 ELSE Ok(NativeResult(sel.val.names, sel.val.rows, cnt.val))

\* the values the row commands are given: one of each variant
RowTags == {"Null", "Integer", "Real", "Text", "Blob"}
RowValue(tag) ==
    CASE tag = "Null" -> [tag |-> "Null", v |-> 0]
      [] tag = "Integer" -> VInteger(5)
      [] tag = "Real" -> [tag |-> "Real", v |-> 2]
      [] tag = "Text" -> VText(<<"5">>)
      [] tag = "Blob" -> [tag |-> "Blob", v |-> <<"x">>]

\* the row insert_row is given for a table of columns cols, v in its column
\* value (in every column of a table without one)
RowFor(cols, v) ==
    [k \in 1..Len(cols) |->
        IF cols[k] = "id" /\ Len(cols) = 3 THEN VInteger(1)
        ELSE IF cols[k] = "name" /\ Len(cols) = 3 THEN VText(<<"b">>)
        ELSE v]

\* the declared column orders of the table of the row specification
RowColumnOrders == {<<"id", "name", "value">>, <<"name", "value", "id">>, <<"value">>}

\* a table above the LIMIT of get_table_data
BigTable == StoredTable(<<"name", "id", "value">>, RowLimit + 1, 0)

\* the table t with its first d rows stored once more
Repeated(t, d) == [t EXCEPT !.rows = @ \o SubSeq(@, 1, d)]

InitRows ==
    /\ rkind \in {"native", "libsql"}
    /\ \/ \E cols \in RowColumnOrders, n \in 0..MaxStored, v \in {0, 1}, d \in {0, 1} :
             /\ d <= n
             /\ rtab = <<Repeated(StoredTable(cols, n, v), d)>>
       \/ rtab = <<BigTable>>
    /\ rlog = <<>>
    /\ ResolveIdle
    /\ FetchIdle
    /\ MainIdle
    /\ PollIdle

\* an operation with arguments args has run with outcome r ([res, tables])
Logged(op, args, r) ==
    /\ rlog' = Append(rlog, [op |-> op, args |-> args, before |-> rtab[1],
                             after |-> r.tables[1], res |-> r.res])
    /\ rtab' = r.tables
    /\ UNCHANGED <<rkind, resolveVars, fetchVars, mainVars, pollVars>>

\* the rows are written, up to MaxOps - 1 times and in the small tables,
\* before they are read
CanWrite ==
    /\ Len(rlog) < MaxOps - 1
    /\ Len(rtab[1].rows) <= MaxStored + MaxOps
    /\ \A i \in 1..Len(rlog) : rlog[i].op \in {"insert", "remove", "update"}

CanRead ==
    /\ Len(rlog) < MaxOps
    /\ \A i \in 1..Len(rlog) : rlog[i].op \in {"insert", "remove", "update"}

RowInsert(v) ==
    /\ CanWrite
    /\ LET row == RowFor(rtab[1].cols, v)
       IN  Logged("insert", [row |-> row],
                  IF rkind = "native"
                  THEN NativeInsertRow(rtab, TName, row)
                  ELSE LibsqlInsertRow(rtab, TName, row, TRUE))

RowRemove(col, id) ==
    /\ CanWrite
    /\ ColumnIndex(rtab[1].cols, col, 1) # 0
    /\ Logged("remove", [col |-> col, id |-> id],
              IF rkind = "native"
              THEN NativeRemoveRow(rtab, TName, col, id)
              ELSE LibsqlRemoveRow(rtab, TName, col, id, TRUE))

RowUpdate(col, index_col, id, value) ==
    /\ CanWrite
    /\ ColumnIndex(rtab[1].cols, col, 1) # 0
    /\ ColumnIndex(rtab[1].cols, index_col, 1) # 0
    /\ Logged("update",
              [col |-> col, index_col |-> index_col, id |-> id, value |-> value],
              IF rkind = "native"
              THEN NativeUpdateRow(rtab, TName, col, index_col, id, value)
              ELSE LibsqlUpdateRow(rtab, TName, col, index_col, id, value, TRUE))

RowFetch(o) ==
    /\ CanRead
    /\ Logged("fetch", [o |-> o],
              [res |-> IF rkind = "native"
                       THEN NativeGetTableData(rtab, TName)
                       ELSE LibsqlGetTableData(rtab, TName, TRUE, o),
               tables |-> rtab])

RowQuery(query, o) ==
    /\ CanRead
    /\ Logged("query", [query |-> query, o |-> o],
              [res |-> IF rkind = "native"
                       THEN NativeRunQuery(rtab, query)
                       ELSE LibsqlRunQuery(rtab, query, TRUE, o),
               tables |-> rtab])

\* the SQL texts run_query is given in the row specification
RowQueries ==
    IF rkind = "native" THEN {Select(TName), Terminated(TName)} ELSE {Select(TName)}

\* the orders the first row's map can yield its keys in; the embedded backend
\* reads no map
RowKeyOrders ==
    IF rkind = "native" THEN {<<>>} ELSE KeyOrders(rtab[1].cols)

NextRows ==
    \/ \E tag \in RowTags : RowInsert(RowValue(tag))
    \/ \E col \in {"id", "value"}, id \in RowIds : RowRemove(col, id)
    \/ \E col \in {"name", "value"}, index_col \in {"id", "value"}, id \in RowIds :
          RowUpdate(col, index_col, id, RowValue(IF col = "name" THEN "Text" ELSE "Null"))
    \/ \E o \in RowKeyOrders : RowFetch(o)
    \/ \E query \in RowQueries, o \in RowKeyOrders : RowQuery(query, o)

SpecRows == InitRows /\ [][NextRows]_vars

(***************************************************************************)
(* Claims                                                                  *)
(***************************************************************************)
\* s holds a "::"
HasSep(s) == \E i \in 1..(Len(s) - 1) : s[i] = ":" /\ s[i + 1] = ":"

\* rin is libsql://A::B with the separator at k
SplitsAt(k) ==
    /\ StartsWith(rin, Scheme)
    /\ k > Len(Scheme)
    /\ k + 1 <= Len(rin)
    /\ rin[k] = ":"
    /\ rin[k + 1] = ":"

UrlPart(k) == SubSeq(rin, Len(Scheme) + 1, k - 1)
TokenPart(k) == SubSeq(rin, k + 2, Len(rin))

\* C1 as stated: libsql://A::B resolves to Remote with url exactly A and token
\* exactly B, a string starting with / to Embedded with the string as its path,
\* every other string to Embedded with path <cwd>/../<string>.
C1_AsStated ==
    rout # Unset =>
        /\ \A k \in 1..Len(rin) :
              SplitsAt(k) => rout = Libsql(UrlPart(k), TokenPart(k))
        /\ StartsWith(rin, <<"/">>) => rout = Sqlite(rin)
        /\ (~StartsWith(rin, Scheme) /\ ~StartsWith(rin, <<"/">>)) =>
              rout = Sqlite(Cwd \o <<"/", ".", ".", "/">> \o rin)

\* C1 amended: a string starting with libsql:// that holds a "::" resolves to
\* Remote whose url is the text before the first "::", the libsql:// scheme
\* included, and whose token is the text from there to the next "::" or the end;
\* so libsql://A::B with no "::" in A: or in B gives url libsql://A and token B.
\* A string starting with / resolves to Embedded with the string unchanged, a
\* string starting with neither to Embedded with path <cwd>/../<string>.
C1_Resolution ==
    rout # Unset =>
        /\ (StartsWith(rin, Scheme) /\ HasSep(rin)) =>
              /\ rout.type = "Libsql"
              /\ StartsWith(rout.host, Scheme)
              /\ StartsWith(rin, rout.host \o Sep \o rout.token)
              /\ ~HasSep(rout.host \o <<":">>)
              /\ ~HasSep(rout.token)
              /\ \/ rin = rout.host \o Sep \o rout.token
                 \/ StartsWith(rin, rout.host \o Sep \o rout.token \o Sep)
        /\ \A k \in 1..Len(rin) :
              (SplitsAt(k) /\ ~HasSep(Append(UrlPart(k), ":")) /\ ~HasSep(TokenPart(k))) =>
                  rout = Libsql(Scheme \o UrlPart(k), TokenPart(k))
        /\ StartsWith(rin, <<"/">>) => rout = Sqlite(rin)
        /\ (~StartsWith(rin, Scheme) /\ ~StartsWith(rin, <<"/">>)) =>
              rout = Sqlite(Cwd \o <<"/", ".", ".", "/">> \o rin)

\* libsql://a::a has been resolved, to a Remote descriptor
C1_Witness ==
    /\ rin = Scheme \o <<"a">> \o Sep \o <<"a">>
    /\ rout = Libsql(Scheme \o <<"a">>, <<"a">>)

\* the fetch specification's table, and its rows as the caller gets them
FTable == ftab[1]
FRows == [i \in 1..Len(FTable.rows) |->
            [k \in 1..Len(FTable.cols) |-> FromValue(FTable.rows[i][k])]]
FFetched == fname = TName /\ fout # Unset

\* thread t is between taking the guard and dropping it
InCommand(t) == pc[t] \in {"held", "swapped", "listed", "rows", "qrows", "ret"}

\* thread t runs (or ran, if it panicked) connect_to_db with a path
Connecting(t) == cmd[t].name = "connect_to_db" /\ "path" \in DOMAIN cmd[t]

\* thread t's connection string starts with libsql:// and has no "::"
Malformed(t) ==
    /\ Connecting(t)
    /\ StartsWith(cmd[t].path, Scheme)
    /\ ~HasSep(cmd[t].path)

\* C2: connect with a string that starts with libsql:// and has no "::" ends
\* by returning an error value; it does not panic and builds no backend.
C2_MalformedIsError ==
    \A t \in Threads :
        Malformed(t) =>
            /\ pc[t] = "ret"
            /\ res[t].type = "Err"
            /\ db.id = pre[t]

\* C3: after a connect that returns an error to its caller, the active backend
\* is the one that was active before the call.
C3_ErrorKeepsBackend ==
    \A t \in Threads :
        (Connecting(t) /\ pc[t] = "ret" /\ res[t].type = "Err") => db.id = pre[t]

\* thread t's connection string names an embedded path with nothing to open
Unopenable(t) ==
    /\ Connecting(t)
    /\ ConnectionTypeOf(cmd[t].path).type = "Sqlite"
    /\ files[ConnectionTypeOf(cmd[t].path).path].kind = "missing"

\* C4: connect with an embedded path that cannot be opened returns success:
\* the active backend becomes a new, empty in-memory database and the
\* response has no tables and an empty preview, whatever was active before.
C4_SilentFallback ==
    \A t \in Threads :
        Unopenable(t) =>
            /\ pc[t] \in {"swapped", "ret"}
            /\ db.kind = "native"
            /\ db.conn = InMemory
            /\ db.id # pre[t]
            /\ pc[t] = "ret" =>
                  res[t] = Ok([tables |-> <<>>, column_names |-> <<>>,
                               preview_rows |-> <<>>, row_count |-> 0])

\* a connect to an unopenable path is about to return success, a remote
\* backend having been active before it
C4_Witness ==
    \E t \in Threads :
        /\ Unopenable(t)
        /\ pc[t] = "ret"
        /\ res[t].type = "Ok"
        /\ pre[t] # 0
        /\ db.conn = InMemory

\* C5: at most one of the database commands is executing against the
\* dispatcher at any time, and it holds the lock from its first backend
\* access until it returns.
C5_MutualExclusion ==
    /\ \A t1, t2 \in Threads : (InCommand(t1) /\ InCommand(t2)) => t1 = t2
    /\ \A t \in Threads : InCommand(t) <=> lock = t
    /\ \A t \in Threads : (used[t] # {} /\ pc[t] # "panicked") => lock = t

\* one thread is in the middle of a command while another waits for the lock
C5_Witness ==
    \E t1, t2 \in Threads :
        /\ pc[t1] = "rows"
        /\ used[t1] # {}
        /\ pc[t2] = "wait"
        /\ lock = t1

\* C6: a command runs from start to end against the backend that was active
\* when it took the lock; the backend is replaced only by connect_to_db, under
\* that lock, so no command is in flight when the new backend appears, and
\* connect_to_db's own calls after the swap see only the new backend.
C6_AtomicSwap ==
    \A t \in Threads :
        InCommand(t) =>
            IF cmd[t].name = "connect_to_db"
            THEN /\ pc[t] = "held" => (db.id = pre[t] /\ used[t] = {})
                 /\ pc[t] # "held" => (db.id # pre[t] /\ used[t] \subseteq {db.id})
            ELSE /\ db.id = pre[t]
                 /\ used[t] \subseteq {pre[t]}

\* a command that took the lock after a reconnect is between its two
\* statements on the new backend
C6_Witness ==
    \E t \in Threads :
        /\ pc[t] = "rows"
        /\ cmd[t].name = "get_table_data"
        /\ pre[t] # 0
        /\ used[t] = {db.id}

\* C7: every operation ends by returning a success value or an error string;
\* none ends in a panic.
C7_NoPanic ==
    \A t \in Threads : pc[t] # "panicked"

\* C8: embedded fetch_table on a table of n >= 1 rows returns the first
\* min(n, 100) rows and total_row_count = n.
C8_LimitAndCount ==
    (FFetched /\ Len(FTable.rows) >= 1) =>
        /\ fout.type = "Ok"
        /\ Len(fout.val.rows) = Min(Len(FTable.rows), 100)
        /\ \A i \in 1..Len(fout.val.rows) : fout.val.rows[i] = FRows[i]
        /\ fout.val.row_count = Len(FTable.rows)

\* a table of more than 100 rows has been fetched: 100 rows, the full count
C8_Witness ==
    /\ FFetched
    /\ Len(FTable.rows) > 100
    /\ fout.type = "Ok"
    /\ Len(fout.val.rows) = 100
    /\ fout.val.row_count = Len(FTable.rows)

\* C9: embedded fetch_table on a table with declared columns and no rows
\* returns success with columns = [], rows = [], total_row_count = 0.
C9_EmptyTable ==
    (FFetched /\ Len(FTable.cols) >= 1 /\ Len(FTable.rows) = 0) =>
        fout = Ok(TableRequest(<<>>, <<>>, 0))

\* an empty table of three columns has been fetched
C9_Witness ==
    /\ FFetched
    /\ Len(FTable.cols) = 3
    /\ Len(FTable.rows) = 0
    /\ fout.type = "Ok"

\* the table has a column id that is not its first column, and a row
IdNotFirst ==
    /\ Len(FTable.rows) >= 1
    /\ \E i \in 2..Len(FTable.cols) : FTable.cols[i] = "id"

\* C10 as stated: with a column id at an index other than 0 and at least one
\* row, embedded fetch_table returns id as column 0 and moves every row's id
\* value to index 0.
C10_AsStated ==
    (FFetched /\ IdNotFirst) =>
        /\ fout.type = "Ok"
        /\ fout.val.column_names[1].name = "id"
        /\ \A r \in 1..Len(fout.val.rows) :
              \E i \in 2..Len(FTable.cols) :
                  /\ FTable.cols[i] = "id"
                  /\ fout.val.rows[r] = MoveToFront(FRows[r], i)

\* C10 amended: the embedded backend applies no id-promotion; with a column id
\* at an index other than 0 and at least one row, fetch_table returns the
\* columns in the table's declared order and every row in that same order.
C10_DeclaredOrder ==
    (FFetched /\ IdNotFirst) =>
        /\ fout.type = "Ok"
        /\ Len(fout.val.column_names) = Len(FTable.cols)
        /\ \A k \in 1..Len(FTable.cols) : fout.val.column_names[k].name = FTable.cols[k]
        /\ \A r \in 1..Len(fout.val.rows) : fout.val.rows[r] = FRows[r]

\* a table (name, id, value) with a row has been fetched, as (name, id, value)
C10_Witness ==
    /\ FFetched
    /\ FTable.cols = <<"name", "id", "value">>
    /\ Len(FTable.rows) >= 1
    /\ fout.type = "Ok"
    /\ fout.val.column_names[2].name = "id"

\* operation i of the row specification was op and returned success
RowOk(i, op) ==
    /\ i \in 1..Len(rlog)
    /\ rlog[i].op = op
    /\ rlog[i].res.type = "Ok"

\* values a and b have the same variant and the same content
SameValue(a, b) == a.tag = b.tag /\ a.v = b.v

ColumnOf(i, col) == ColumnIndex(rlog[i].before.cols, col, 1)

\* the rows of the table before operation i whose column col equals id
MatchingRows(i, col, id) ==
    {r \in 1..Len(rlog[i].before.rows) :
        Matches(rlog[i].before.rows[r][ColumnOf(i, col)], id)}

\* C12: delete_row(table, key_column, key_value) on an existing table and
\* column returns the success message on either backend; the rows whose
\* key_column equals key_value are removed, all of them, and every other row
\* is kept, in order; when no row matches the rows are unchanged.
C12_DeleteRow ==
    \A i \in 1..Len(rlog) :
        rlog[i].op = "remove" =>
            LET col == rlog[i].args.col
                id == rlog[i].args.id
                c == ColumnOf(i, col)
            IN  /\ rlog[i].res = Ok("Row removed successfully")
                /\ rlog[i].after.rows =
                      SelectSeq(rlog[i].before.rows, LAMBDA row : ~Matches(row[c], id))
                /\ MatchingRows(i, col, id) = {} => rlog[i].after = rlog[i].before
                /\ Len(rlog[i].after.rows) =
                      Len(rlog[i].before.rows) - Cardinality(MatchingRows(i, col, id))

\* a remove has deleted the two rows of a three-row table that matched its
\* key and kept the third
C12_Witness ==
    /\ rlog # <<>>
    /\ rlog[1].op = "remove"
    /\ rlog[1].res.type = "Ok"
    /\ Len(rlog[1].before.rows) = 3
    /\ Cardinality(MatchingRows(1, rlog[1].args.col, rlog[1].args.id)) = 2
    /\ Len(rlog[1].after.rows) = 1

\* operation i read the table, by get_table_data or run_query, with success
RowRead(i) == RowOk(i, "fetch") \/ RowOk(i, "query")

\* C13: on the remote backend every value of every row returned by
\* fetch_table and by execute_query is of variant Text, and every returned
\* column has the declared type TEXT, whatever was stored.
C13_RemoteAllText ==
    \A i \in 1..Len(rlog) :
        (rkind = "libsql" /\ RowRead(i)) =>
            LET result == rlog[i].res.val
            IN  /\ \A k \in 1..Len(result.column_names) :
                      result.column_names[k].type_name = "TEXT"
                /\ \A r \in 1..Len(result.rows) :
                      \A k \in 1..Len(result.rows[r]) : result.rows[r][k].tag = "Text"

\* the remote backend has stored Integer(5) in column value and the fetch that
\* followed returned it as the Text 5, in a column typed TEXT
C13_Witness ==
    /\ rkind = "libsql"
    /\ RowOk(1, "insert")
    /\ RowOk(2, "fetch")
    /\ \E k \in 1..Len(rlog[1].args.row) :
          /\ rlog[1].before.cols[k] = "value"
          /\ rlog[1].args.row[k] = VInteger(5)
    /\ LET result == rlog[2].res.val
       IN  \E k \in 1..Len(result.column_names) :
              /\ result.column_names[k] = ColumnInfo("value", "TEXT")
              /\ result.rows[Len(result.rows)][k] = VText(<<"5">>)

\* the stored value x as the backend of the row specification hands it over
Shown(x) ==
    IF rkind = "native" THEN FromValue(x)
    ELSE [tag |-> "Text", v |-> ValueToString(x)]

\* C14: in every TableResult returned successfully by fetch_table or
\* execute_query, on either backend, every row has exactly len(columns)
\* values, and the value at position k of a row is that row's value for the
\* column named columns[k], also after the id column has been moved.
C14_Alignment ==
    \A i \in 1..Len(rlog) :
        RowRead(i) =>
            LET result == rlog[i].res.val
                stored == rlog[i].before
            IN  \A r \in 1..Len(result.rows) :
                    /\ Len(result.rows[r]) = Len(result.column_names)
                    /\ Len(result.column_names) = Len(stored.cols)
                    /\ \A k \in 1..Len(result.column_names) :
                          LET c == ColumnIndex(stored.cols, result.column_names[k].name, 1)
                          IN  /\ c # 0
                              /\ SameValue(result.rows[r][k], Shown(stored.rows[r][c]))

\* the remote backend has fetched a table of two rows or more whose map gave
\* the key id last: id is the first column of the result and the first value
\* of its second row is that row's id
C14_Witness ==
    /\ rkind = "libsql"
    /\ RowOk(1, "fetch")
    /\ Len(rlog[1].before.cols) = 3
    /\ rlog[1].before.cols[rlog[1].args.o[3]] = "id"
    /\ Len(rlog[1].res.val.rows) >= 2
    /\ rlog[1].res.val.column_names[1].name = "id"
    /\ rlog[1].res.val.rows[2][1] = VText(<<"2">>)

\* the value as the backend of the row specification writes it
Written(value) ==
    IF rkind = "native" THEN ToSql(value) ELSE LibsqlLiteral(value)

\* C15: update_row(table, set_column, key_column, key_value, new_value), on
\* either backend and for any key_column, sets set_column to new_value in
\* exactly the rows where key_column = key_value; the rows where key_column
\* differs from key_value, and all other columns, are left unchanged.
C15_KeyColumn ==
    \A i \in 1..Len(rlog) :
        RowOk(i, "update") =>
            LET c == ColumnOf(i, rlog[i].args.col)
                hits == MatchingRows(i, rlog[i].args.index_col, rlog[i].args.id)
            IN  /\ Len(rlog[i].after.rows) = Len(rlog[i].before.rows)
                /\ \A r \in 1..Len(rlog[i].before.rows) :
                      rlog[i].after.rows[r] =
                          IF r \in hits
                          THEN [rlog[i].before.rows[r] EXCEPT ![c] = Written(rlog[i].args.value)]
                          ELSE rlog[i].before.rows[r]

\* C16: on the remote backend total_row_count is 0 in every successful
\* fetch_table result, whatever the number of rows returned; the rows are not
\* capped, every row of the table is returned.
C16_RemoteCountZero ==
    \A i \in 1..Len(rlog) :
        (rkind = "libsql" /\ RowOk(i, "fetch")) =>
            /\ rlog[i].res.val.row_count = 0
            /\ Len(rlog[i].res.val.rows) = Len(rlog[i].before.rows)

\* the remote backend has fetched a table of more than 100 rows: all of them
\* are returned, with a total_row_count of 0
C16_Witness ==
    /\ rkind = "libsql"
    /\ RowOk(1, "fetch")
    /\ Len(rlog[1].before.rows) > 100
    /\ Len(rlog[1].res.val.rows) = Len(rlog[1].before.rows)
    /\ rlog[1].res.val.row_count = 0

\* the keys of the first row's map in the order the map gave them to fetch i
KeysOf(i) ==
    [k \in 1..Len(rlog[i].before.cols) |-> rlog[i].before.cols[rlog[i].args.o[k]]]

\* the column names of the result of read i
NamesOf(i) ==
    [k \in 1..Len(rlog[i].res.val.column_names) |-> rlog[i].res.val.column_names[k].name]

\* fetch i ran on the remote backend and returned rows
RemoteFetched(i) ==
    /\ rkind = "libsql"
    /\ RowOk(i, "fetch")
    /\ rlog[i].res.val.rows # <<>>

\* C17 as stated: the remote backend applies no id-promotion; the column order
\* of a remote fetch_table result is exactly the key order of the first row's
\* map, also when a column named id is at an index other than 0.
C17_AsStated ==
    \A i \in 1..Len(rlog) : RemoteFetched(i) => NamesOf(i) = KeysOf(i)

\* C17 amended: the remote backend does apply id-promotion; the column order
\* of a remote fetch_table result is the key order of the first row's map
\* with the key id, when it is at an index other than 0, moved to index 0 and
\* the other keys kept in their order; without such a key it is the key order.
C17_RemotePromotes ==
    \A i \in 1..Len(rlog) :
        RemoteFetched(i) =>
            IF \E k \in 2..Len(KeysOf(i)) : KeysOf(i)[k] = "id"
            THEN NamesOf(i) = <<"id">> \o SelectSeq(KeysOf(i), LAMBDA key : key # "id")
            ELSE NamesOf(i) = KeysOf(i)

\* the remote backend has fetched a table with rows whose map gave the keys
\* as (name, id, value): the result's columns are (id, name, value)
C17_Witness ==
    /\ RemoteFetched(1)
    /\ KeysOf(1) = <<"name", "id", "value">>
    /\ NamesOf(1) = <<"id", "name", "value">>

\* thread t runs fetch_table or execute_query
Reading(t) == cmd[t].name \in {"get_table_data", "sql_query"}

\* C18: the embedded fetch_table and execute_query read the rows and then run
\* a separate count query, both under the dispatcher lock: the rows returned
\* are those the first statement read, and total_row_count is the table's
\* cardinality when the second statement runs, which a writer outside the
\* process may have changed in between.
C18_NonAtomicCount ==
    [][\A t \in Threads :
          (/\ Reading(t)
           /\ pc[t] \in {"rows", "qrows"}
           /\ pc'[t] = "ret"
           /\ res'[t].type = "Ok") =>
              /\ lock = t
              /\ lock' = t
              /\ res'[t].val.rows = loc[t].rows
              /\ res'[t].val.row_count =
                    Len(TableOf(ConnTables(db.conn), loc[t].name).rows)]_vars

\* a fetch_table that holds the lock is about to return the one row it read
\* of a table under the 100-row cap with a total_row_count of 2: a row was
\* inserted from outside between its two statements
C18_Witness ==
    \E t \in Threads :
        /\ pc[t] = "ret"
        /\ lock = t
        /\ cmd[t].name = "get_table_data"
        /\ res[t].type = "Ok"
        /\ Len(res[t].val.rows) = 1
        /\ res[t].val.row_count = 2

\* thread t's command ended in a panic before it ran: in lock().unwrap(), its
\* first line, where it has not yet looked at its arguments
FailedAtLock(t) == pc[t] = "panicked" /\ DOMAIN cmd[t] = {"name"}

\* C19: every operation releases the dispatcher lock when it ends, however it
\* ends, and leaves it usable: a caller waiting for the lock acquires it and
\* runs, and no operation fails because an earlier one failed.
C19_LockStaysUsable ==
    /\ \A t \in Threads : pc[t] = "panicked" => lock # t
    /\ \A t \in Threads : ~FailedAtLock(t)

\* the declared type that goes with each variant tag
TagType ==
    [Null |-> "NULL", Integer |-> "INTEGER", Real |-> "REAL", Text |-> "TEXT",
     Blob |-> "BLOB"]

\* C20: in an embedded fetch_table or execute_query result with at least one
\* row, the declared type of column k is the tag of the first returned row's
\* value at position k, which is the first stored row's value, whatever the
\* later rows hold.
C20_TypeOfFirstRow ==
    \A i \in 1..Len(rlog) :
        (rkind = "native" /\ RowRead(i) /\ rlog[i].res.val.rows # <<>>) =>
            LET result == rlog[i].res.val
            IN  /\ Len(result.column_names) = Len(result.rows[1])
                /\ \A k \in 1..Len(result.column_names) :
                      /\ result.column_names[k].type_name = TagType[result.rows[1][k].tag]
                      /\ result.rows[1][k].tag = FromValue(rlog[i].before.rows[1][k]).tag

\* the embedded execute_query has read a table (id, name, value) whose first
\* row holds Null in column value and whose second row holds an Integer
\* there: the column is typed NULL
C20_Witness ==
    /\ rkind = "native"
    /\ RowOk(1, "query")
    /\ rlog[1].before.cols = <<"id", "name", "value">>
    /\ Len(rlog[1].res.val.rows) >= 2
    /\ rlog[1].res.val.column_names[3] = ColumnInfo("value", "NULL")
    /\ rlog[1].res.val.rows[2][3].tag = "Integer"

\* operation i was the embedded execute_query, on the text query
NativeQueried(i, query) ==
    /\ rkind = "native"
    /\ rlog[i].op = "query"
    /\ rlog[i].args.query = query

\* the rows of the table before operation i, as the embedded backend hands
\* them over
AllRows(i) ==
    [r \in 1..Len(rlog[i].before.rows) |->
        [k \in 1..Len(rlog[i].before.cols) |-> FromValue(rlog[i].before.rows[r][k])]]

\* C21: the embedded execute_query does not cap the rows and counts with
\* SELECT COUNT(*) FROM (<query>): with no writer between the two statements
\* a query that returns rows gives every row of the query and a
\* total_row_count equal to rows.len(); a query that returns no rows gives
\* columns = [], rows = [], total_row_count = 0 without the count being run;
\* when the count statement fails the operation returns an error, not the rows.
C21_QueryCount ==
    \A i \in 1..Len(rlog) :
        /\ (NativeQueried(i, Select(TName)) /\ rlog[i].before.rows # <<>>) =>
              /\ rlog[i].res.type = "Ok"
              /\ rlog[i].res.val.rows = AllRows(i)
              /\ rlog[i].res.val.row_count = Len(rlog[i].res.val.rows)
        /\ (NativeQueried(i, Terminated(TName)) /\ rlog[i].before.rows # <<>>) =>
              rlog[i].res.type = "Err"
        /\ ((NativeQueried(i, Select(TName)) \/ NativeQueried(i, Terminated(TName)))
                /\ rlog[i].before.rows = <<>>) =>
              rlog[i].res = Ok(TableRequest(<<>>, <<>>, 0))

\* the embedded execute_query has read a table of more than 100 rows: every
\* row is returned and total_row_count is their number
C21_Witness ==
    /\ rlog # <<>>
    /\ NativeQueried(1, Select(TName))
    /\ Len(rlog[1].before.rows) > 100
    /\ rlog[1].res.type = "Ok"
    /\ Len(rlog[1].res.val.rows) = Len(rlog[1].before.rows)
    /\ rlog[1].res.val.row_count = Len(rlog[1].before.rows)

\* thread or task x is blocked in a lock() call
WaitsForLock(x) ==
    IF x = Poller THEN ppc = "tick" ELSE pc[x] \in {"wait", "cwait"}

\* C22: no thread holds the callback-registry lock and the database lock at
\* the same time: a thread in register_callback and the polling task hold at
\* most the registry's lock, a thread in a database command at most the
\* database lock; so no holder of a lock ever waits for a lock (no deadlock),
\* and a polling tick gets past its lock() however long a database command
\* holds the database lock.
C22_LocksApart ==
    /\ [](\A x \in Threads \cup {Poller} :
            /\ ~(lock = x /\ cblock = x)
            /\ (lock = x \/ cblock = x) => ~WaitsForLock(x))
    /\ [](/\ lock # Poller
          /\ \A t \in Threads :
                /\ lock = t => cmd[t].name \in Commands
                /\ cblock = t => cmd[t].name = "register_callback")
    /\ (ppc = "tick") ~> (ppc # "tick")

\* a polling tick holds the registry's lock while a database command is in
\* the middle of its work under the database lock and another command waits
\* for that lock
C22_Witness ==
    /\ cblock = Poller
    /\ ppc = "locked"
    /\ \E t \in Threads :
          /\ lock = t
          /\ pc[t] \in {"rows", "qrows", "swapped", "listed"}
          /\ \E u \in Threads : pc[u] = "wait"

====
